---- MODULE Spec2Model ----
(***************************************************************************)
(* Model of the pizza-restaurant API: the three tables of server/models.py *)
(* and the six request handlers of server/app.py.                          *)
(*                                                                         *)
(* Spec     : requests are handled one at a time, one action per handler.  *)
(* ConcSpec : two requests are in flight; every statement a handler sends  *)
(*            to the database is a step of its own.                        *)
(***************************************************************************)
EXTENDS Integers, Sequences, FiniteSets, TLC

VARIABLES
    restaurants,        \* table "restaurants": set of rows [id, name, address]
    pizzas,             \* table "pizzas": set of rows [id, name, ingredients]
    restaurant_pizzas,  \* table "restaurant_pizzas": rows [id, price, restaurant_id, pizza_id]
    foreign_keys,       \* whether the configured storage engine enforces FOREIGN KEY constraints
    request,            \* the request handled last
    response,           \* its response [status, body]
    deleted,            \* history: ids of the restaurants whose DELETE answered 204
    pc,                 \* ConcSpec: where each in-flight request stands
    session             \* ConcSpec: each in-flight request's db.session

vars == <<restaurants, pizzas, restaurant_pizzas, foreign_keys, request, response,
          deleted, pc, session>>

tables == <<restaurants, pizzas, restaurant_pizzas>>

-----------------------------------------------------------------------------
(* Bounds *)

\* most rows the restaurant_pizzas table holds
MaxRows == 2

\* recursion budget of the serializer (Python's recursion limit)
MaxDepth == 6

-----------------------------------------------------------------------------
(* JSON values of a request body, tagged with their Python type *)

Integer(n) == [t |-> "int", v |-> n]
\* True is Boolean(1), False is Boolean(0)
Boolean(b) == [t |-> "bool", v |-> b]
\* the string whose text is the decimal n, e.g. "5"
String(n) == [t |-> "str", v |-> n]
\* the float n.0 (a JSON number with a fraction part parses to a Python float)
Float(n) == [t |-> "float", v |-> n]
\* JSON null, Python None
Null == [t |-> "null", v |-> 0]
\* the key is absent from the body: data[key] raises KeyError
Missing == [t |-> "missing", v |-> 0]

MIN_PRICE == 1
MAX_PRICE == 30

\* isinstance(value, int): bool is a subclass of int
isinstance_int(value) == value.t \in {"int", "bool"}

\* the number an int (or bool) compares as
int_value(value) == value.v

\* what an Integer column stores for a bound Python value
column_integer(value) == IF value.t = "null" THEN Null ELSE Integer(int_value(value))

-----------------------------------------------------------------------------
(* models.py: RestaurantPizza *)

\* @validates("price"): ok is FALSE where the validator raises ValueError
validate_price_no_upper(value) ==
    IF value.t = "null" THEN [ok |-> FALSE, value |-> value]
    ELSE IF ~isinstance_int(value) THEN [ok |-> FALSE, value |-> value]
    ELSE IF int_value(value) < MIN_PRICE THEN [ok |-> FALSE, value |-> value]
    ELSE [ok |-> TRUE, value |-> value]

validate_price(value) ==
    IF value.t = "null" THEN [ok |-> FALSE, value |-> value]
    ELSE IF ~isinstance_int(value) THEN [ok |-> FALSE, value |-> value]
    ELSE IF int_value(value) < MIN_PRICE \/ int_value(value) > MAX_PRICE
         THEN [ok |-> FALSE, value |-> value]
    ELSE [ok |-> TRUE, value |-> value]

\* RestaurantPizza(price=data["price"], pizza_id=data["pizza_id"],
\*                 restaurant_id=data["restaurant_id"]):
\* a missing key raises KeyError while the arguments are evaluated, the price
\* validator runs when the attribute is set.
construct_swapped(data) ==
    IF Missing \in {data.price, data.pizza_id, data.restaurant_id}
    THEN [ok |-> FALSE, raised |-> "KeyError"]
    ELSE IF ~validate_price(data.price).ok
    THEN [ok |-> FALSE, raised |-> "ValueError"]
    ELSE [ok |-> TRUE, raised |-> "",
          price |-> validate_price(data.price).value,
          pizza_id |-> data.restaurant_id,
          restaurant_id |-> data.pizza_id]

construct(data) ==
    IF Missing \in {data.price, data.pizza_id, data.restaurant_id}
    THEN [ok |-> FALSE, raised |-> "KeyError"]
    ELSE IF ~validate_price(data.price).ok
    THEN [ok |-> FALSE, raised |-> "ValueError"]
    ELSE [ok |-> TRUE, raised |-> "",
          price |-> validate_price(data.price).value,
          pizza_id |-> data.pizza_id,
          restaurant_id |-> data.restaurant_id]

Max(S) == CHOOSE x \in S : \A y \in S : y <= x

ids(table) == {row.id : row \in table}

\* id = db.Column(db.Integer, primary_key=True): the engine gives a new row
\* the largest id in the table plus one
new_id(table) == IF table = {} THEN 1 ELSE Max(ids(table)) + 1

\* db.ForeignKey: a NULL reference is allowed (the columns are nullable); any
\* other value must be the id of a row of the referenced table
references(value, table) == value = Null \/ \E row \in table : value = Integer(row.id)

-----------------------------------------------------------------------------
(* models.py: the schema as SerializerMixin sees it *)

\* a database: the three tables
DB(r, p, rp) == [restaurants |-> r, pizzas |-> p, restaurant_pizzas |-> rp]

columns(model) ==
    CASE model = "Restaurant" -> {"id", "name", "address"}
      [] model = "Pizza" -> {"id", "name", "ingredients"}
      [] model = "RestaurantPizza" -> {"id", "price", "restaurant_id", "pizza_id"}

relationships(model) ==
    CASE model = "Restaurant" -> {"restaurant_pizzas"}
      [] model = "Pizza" -> {"restaurant_pizzas"}
      [] model = "RestaurantPizza" -> {"restaurant", "pizza"}

\* the model a relationship leads to
target(model, key) ==
    CASE key = "restaurant_pizzas" -> "RestaurantPizza"
      [] key = "restaurant" -> "Restaurant"
      [] key = "pizza" -> "Pizza"

\* one-to-many relationships serialize to a list
uselist(model, key) == key = "restaurant_pizzas"

\* serialize_rules of each model: the paths left out of its serialization
restaurant_rules_none == {}

restaurant_rules == {<<"restaurant_pizzas", "restaurant">>}

pizza_rules == {<<"restaurant_pizzas", "pizza">>}

restaurant_pizza_rules ==
    {<<"restaurant", "restaurant_pizzas">>, <<"pizza", "restaurant_pizzas">>}

serialize_rules(model) ==
    CASE model = "Restaurant" -> restaurant_rules
      [] model = "Pizza" -> pizza_rules
      [] model = "RestaurantPizza" -> restaurant_pizza_rules

\* the rows a relationship of `row` loads from database `db`
related(db, model, row, key) ==
    CASE model = "Restaurant" ->
           {rp \in db.restaurant_pizzas : rp.restaurant_id = Integer(row.id)}
      [] model = "Pizza" ->
           {rp \in db.restaurant_pizzas : rp.pizza_id = Integer(row.id)}
      [] model = "RestaurantPizza" /\ key = "restaurant" ->
           {r \in db.restaurants : Integer(r.id) = row.restaurant_id}
      [] model = "RestaurantPizza" /\ key = "pizza" ->
           {p \in db.pizzas : Integer(p.id) = row.pizza_id}

\* rows in primary-key order, the order a query returns them in
RECURSIVE by_id(_)
by_id(rows) ==
    IF rows = {} THEN <<>>
    ELSE LET first == CHOOSE x \in rows : \A y \in rows : x.id <= y.id
         IN <<first>> \o by_id(rows \ {first})

\* what the serializer yields where Python's recursion limit is hit
RecursionError == [RecursionError |-> TRUE]

\* SerializerMixin.to_dict(): every column and relationship of the model that
\* no rule excludes; a nested model is serialized under the rules that reach
\* it by its key, joined with its own serialize_rules.
RECURSIVE serialize(_, _, _, _, _)
serialize(db, model, row, rules, fuel) ==
    IF fuel = 0 THEN RecursionError
    ELSE
    LET active == rules \cup serialize_rules(model)
        keys == {k \in columns(model) \cup relationships(model) : <<k>> \notin active}
        below(k) == {Tail(path) : path \in {q \in active : Len(q) > 1 /\ Head(q) = k}}
        nested(k) ==
            IF uselist(model, k)
            THEN LET rows == by_id(related(db, model, row, k))
                 IN [i \in 1..Len(rows) |->
                        serialize(db, target(model, k), rows[i], below(k), fuel - 1)]
            ELSE LET rows == related(db, model, row, k)
                 IN IF rows = {} THEN Null
                    ELSE serialize(db, target(model, k), CHOOSE x \in rows : TRUE,
                                   below(k), fuel - 1)
    IN [k \in keys |-> IF k \in columns(model) THEN row[k] ELSE nested(k)]

to_dict(db, model, row) == serialize(db, model, row, {}, MaxDepth)

\* to_dict(only=fields): the named columns and nothing else
to_dict_only(row, fields) == [k \in fields |-> row[k]]

-----------------------------------------------------------------------------
(* the ORM session *)

\* db.session.get(Restaurant, id): the rows with that primary key
session_get(table, id) == {row \in table : row.id = id}

\* relationship(cascade="all, delete-orphan") of Restaurant.restaurant_pizzas:
\* the child rows loaded through the relationship are deleted with the parent
cascade_none(db, restaurant) == {}

cascade(db, restaurant) == related(db, "Restaurant", restaurant, "restaurant_pizzas")

\* db.session.delete(restaurant): the objects marked for deletion
session_delete_children_only(db, restaurant) ==
    [restaurants |-> {},
     restaurant_pizzas |-> cascade(db, restaurant),
     pizzas |-> {}]

session_delete_with_pizzas(db, restaurant) ==
    [restaurants |-> {restaurant},
     restaurant_pizzas |-> cascade(db, restaurant),
     pizzas |-> UNION {related(db, "RestaurantPizza", rp, "pizza") :
                          rp \in cascade(db, restaurant)}]

session_delete(db, restaurant) ==
    [restaurants |-> {restaurant},
     restaurant_pizzas |-> cascade(db, restaurant),
     pizzas |-> {}]

\* every restaurant_pizzas row of `db` satisfies its FOREIGN KEY constraints
foreign_keys_hold(db) ==
    \A rp \in db.restaurant_pizzas :
        /\ references(rp.restaurant_id, db.restaurants)
        /\ references(rp.pizza_id, db.pizzas)

\* db.session.commit() after a delete: the DELETE statements of the marked
\* rows in one transaction; an engine that enforces foreign keys refuses the
\* transaction (IntegrityError) when a remaining row still references a
\* deleted one.  ok is FALSE where commit raises.
commit_delete(db, fk, marked) ==
    LET after == DB({r \in db.restaurants : r.id \notin ids(marked.restaurants)},
                    {p \in db.pizzas : p.id \notin ids(marked.pizzas)},
                    {rp \in db.restaurant_pizzas : rp.id \notin ids(marked.restaurant_pizzas)})
    IN IF fk /\ ~foreign_keys_hold(after)
       THEN [ok |-> FALSE, db |-> db]
       ELSE [ok |-> TRUE, db |-> after]

\* db.session.add(new_rp); db.session.commit(): one INSERT in one transaction.
\* price is NOT NULL; the foreign keys are checked only by an engine that
\* enforces them.
commit_insert(db, fk, obj) ==
    LET row == [id |-> new_id(db.restaurant_pizzas),
                price |-> column_integer(obj.price),
                restaurant_id |-> column_integer(obj.restaurant_id),
                pizza_id |-> column_integer(obj.pizza_id)]
        after == DB(db.restaurants, db.pizzas, db.restaurant_pizzas \cup {row})
    IN IF row.price = Null \/ (fk /\ ~foreign_keys_hold(after))
       THEN [ok |-> FALSE, db |-> db, row |-> row]
       ELSE [ok |-> TRUE, db |-> after, row |-> row]

-----------------------------------------------------------------------------
(* app.py: responses *)

Response(status, body) == [status |-> status, body |-> body]

not_found_plain == Response(404, [error |-> "Not found"])

not_found == Response(404, [error |-> "Restaurant not found"])

validation_errors == Response(400, [errors |-> <<"validation errors">>])

\* an exception no handler catches
server_error == Response(500, "Internal Server Error")

\* jsonify([row.to_dict(only=fields) for row in rows])
list_of(rows, fields) ==
    LET ordered == by_id(rows)
    IN [i \in 1..Len(ordered) |-> to_dict_only(ordered[i], fields)]

-----------------------------------------------------------------------------
(* the seeded database and the requests tried *)

SeedRestaurants ==
    {[id |-> 1, name |-> "Karen's Pizza Shack", address |-> "address1"],
     [id |-> 2, name |-> "Sanjay's Pizza", address |-> "address2"]}

SeedPizzas ==
    {[id |-> 1, name |-> "Emma", ingredients |-> "Dough, Tomato Sauce, Cheese"],
     [id |-> 2, name |-> "Geri", ingredients |-> "Dough, Tomato Sauce, Cheese, Pepperoni"]}

\* ids asked for in /restaurants/<int:id>: the seeded ones and one never stored
RestaurantIds == {1, 2, 3}

ValidPrices == {Integer(MIN_PRICE), Integer(MAX_PRICE)}

\* prices a body may carry that are not integers of [MIN_PRICE, MAX_PRICE]
OtherPrices ==
    {Integer(MIN_PRICE - 1), Integer(MAX_PRICE + 1), Boolean(1), Boolean(0),
     String(5), Float(5), Null, Missing}

Body(price, pizza_id, restaurant_id) ==
    [price |-> price, pizza_id |-> pizza_id, restaurant_id |-> restaurant_id]

\* <<pizza_id, restaurant_id>> of the bodies tried: existing rows, ids never
\* stored (3), null and absent keys
ForeignKeyPairs ==
    {<<Integer(1), Integer(1)>>, <<Integer(2), Integer(1)>>, <<Integer(1), Integer(2)>>,
     <<Integer(3), Integer(1)>>, <<Integer(1), Integer(3)>>,
     <<Null, Integer(1)>>, <<Integer(1), Null>>,
     <<Missing, Integer(1)>>, <<Integer(1), Missing>>}

Bodies ==
    {Body(price, pair[1], pair[2]) : price \in ValidPrices, pair \in ForeignKeyPairs}
    \cup {Body(price, Integer(1), Integer(1)) : price \in OtherPrices}

NoBody == Body(Missing, Missing, Missing)

Request(endpoint, id, data) == [endpoint |-> endpoint, id |-> id, data |-> data]

\* ConcSpec: the requests in flight
Procs == {1, 2}

EmptySession ==
    [restaurant |-> {},
     marked |-> [restaurants |-> {}, restaurant_pizzas |-> {}, pizzas |-> {}],
     new |-> {}]

Init ==
    /\ restaurants = SeedRestaurants
    /\ pizzas = SeedPizzas
    /\ restaurant_pizzas = {}
    /\ foreign_keys \in BOOLEAN
    /\ request = Request("", 0, NoBody)
    /\ response = Response(0, "")
    /\ deleted = {}
    /\ pc = [p \in Procs |-> "idle"]
    /\ session = [p \in Procs |-> EmptySession]

db_now == DB(restaurants, pizzas, restaurant_pizzas)

\* the tables after a commit
Store(db) ==
    /\ restaurants' = db.restaurants
    /\ pizzas' = db.pizzas
    /\ restaurant_pizzas' = db.restaurant_pizzas

-----------------------------------------------------------------------------
(* app.py: the handlers, one request at a time *)

\* GET /
index ==
    /\ request' = Request("index", 0, NoBody)
    /\ response' = Response(200, "<h1>Code challenge</h1>")
    /\ UNCHANGED <<tables, foreign_keys, deleted, pc, session>>

\* GET /restaurants
get_restaurants ==
    /\ request' = Request("get_restaurants", 0, NoBody)
    /\ response' = Response(200, list_of(restaurants, {"id", "name", "address"}))
    /\ UNCHANGED <<tables, foreign_keys, deleted, pc, session>>

\* GET /restaurants/<int:id>
get_restaurant(id) ==
    LET restaurant == session_get(restaurants, id)
    IN /\ request' = Request("get_restaurant", id, NoBody)
       /\ response' = IF restaurant = {} THEN not_found
                      ELSE Response(200, to_dict(db_now, "Restaurant",
                                                 CHOOSE r \in restaurant : TRUE))
       /\ UNCHANGED <<tables, foreign_keys, deleted, pc, session>>

\* DELETE /restaurants/<int:id>
delete_restaurant(id) ==
    LET restaurant == session_get(restaurants, id)
        marked == session_delete(db_now, CHOOSE r \in restaurant : TRUE)
        done == commit_delete(db_now, foreign_keys, marked)
    IN /\ request' = Request("delete_restaurant", id, NoBody)
       /\ IF restaurant = {}
          THEN /\ response' = not_found
               /\ UNCHANGED <<tables, deleted>>
          ELSE IF done.ok
          THEN /\ Store(done.db)
               /\ response' = Response(204, "")
               /\ deleted' = deleted \cup {id}
          ELSE /\ response' = server_error
               /\ UNCHANGED <<tables, deleted>>
       /\ UNCHANGED <<foreign_keys, pc, session>>

\* GET /pizzas
get_pizzas ==
    /\ request' = Request("get_pizzas", 0, NoBody)
    /\ response' = Response(200, list_of(pizzas, {"id", "name", "ingredients"}))
    /\ UNCHANGED <<tables, foreign_keys, deleted, pc, session>>

\* POST /restaurant_pizzas
create_restaurant_pizza(data) ==
    LET new_rp == construct(data)
        done == commit_insert(db_now, foreign_keys, new_rp)
    IN /\ Cardinality(restaurant_pizzas) < MaxRows
       /\ request' = Request("create_restaurant_pizza", 0, data)
       /\ IF new_rp.ok /\ done.ok
          THEN /\ Store(done.db)
               /\ response' = Response(201, to_dict(done.db, "RestaurantPizza", done.row))
          ELSE /\ response' = validation_errors
               /\ UNCHANGED tables
       /\ UNCHANGED <<foreign_keys, deleted, pc, session>>

Next ==
    \/ index
    \/ get_restaurants
    \/ \E id \in RestaurantIds : get_restaurant(id)
    \/ \E id \in RestaurantIds : delete_restaurant(id)
    \/ get_pizzas
    \/ \E data \in Bodies : create_restaurant_pizza(data)

Spec == Init /\ [][Next]_vars

-----------------------------------------------------------------------------
(* app.py: two requests in flight.  A handler's statements reach the        *)
(* database one at a time; the application takes no lock, so the statements *)
(* of the two requests interleave freely between commits.                   *)

\* bodies posted while another request is in flight, and one price the
\* validator refuses; a body is posted only while the pizza and the restaurant
\* it names are stored (unknown and null ids are tried under Spec)
ConcBodies ==
    {Body(Integer(MIN_PRICE), Integer(1), Integer(1)),
     Body(Integer(MAX_PRICE), Integer(2), Integer(2)),
     Body(Integer(MAX_PRICE + 1), Integer(1), Integer(1))}

\* rows about to be inserted by requests that have not committed yet
pending == {p \in Procs : pc[p] = "adding"}

\* delete_restaurant, line 45: restaurant = db.session.get(Restaurant, id)
delete_get(p, id) ==
    LET restaurant == session_get(restaurants, id)
    IN /\ pc[p] = "idle"
       /\ IF restaurant = {}
          THEN /\ response' = not_found
               /\ UNCHANGED <<pc, session>>
          ELSE /\ pc' = [pc EXCEPT ![p] = "loaded"]
               /\ session' = [session EXCEPT ![p].restaurant = restaurant]
               /\ UNCHANGED response
       /\ UNCHANGED <<tables, foreign_keys, request, deleted>>

\* delete_restaurant, line 49: db.session.delete(restaurant) loads the children
delete_mark(p) ==
    /\ pc[p] = "loaded"
    /\ pc' = [pc EXCEPT ![p] = "deleting"]
    /\ session' = [session EXCEPT ![p].marked =
                      session_delete(db_now, CHOOSE r \in session[p].restaurant : TRUE)]
    /\ UNCHANGED <<tables, foreign_keys, request, response, deleted>>

\* delete_restaurant, lines 50-51: db.session.commit()
delete_commit(p) ==
    LET done == commit_delete(db_now, foreign_keys, session[p].marked)
    IN /\ pc[p] = "deleting"
       /\ pc' = [pc EXCEPT ![p] = "idle"]
       /\ session' = [session EXCEPT ![p] = EmptySession]
       /\ IF done.ok
          THEN /\ Store(done.db)
               /\ response' = Response(204, "")
               /\ deleted' = deleted \cup ids(session[p].restaurant)
          ELSE /\ response' = server_error
               /\ UNCHANGED <<tables, deleted>>
       /\ UNCHANGED <<foreign_keys, request>>

\* create_restaurant_pizza, lines 67-72: construct the object, add it to the session
post_construct(p, data) ==
    LET new_rp == construct(data)
    IN /\ pc[p] = "idle"
       /\ Cardinality(restaurant_pizzas) + Cardinality(pending) < MaxRows
       /\ \E r \in restaurants : data.restaurant_id = Integer(r.id)
       /\ \E pz \in pizzas : data.pizza_id = Integer(pz.id)
       /\ IF new_rp.ok
          THEN /\ pc' = [pc EXCEPT ![p] = "adding"]
               /\ session' = [session EXCEPT ![p].new = {new_rp}]
               /\ UNCHANGED response
          ELSE /\ response' = validation_errors
               /\ UNCHANGED <<pc, session>>
       /\ UNCHANGED <<tables, foreign_keys, request, deleted>>

\* create_restaurant_pizza, lines 73-77: db.session.commit() and the response
post_commit(p) ==
    LET done == commit_insert(db_now, foreign_keys, CHOOSE o \in session[p].new : TRUE)
    IN /\ pc[p] = "adding"
       /\ pc' = [pc EXCEPT ![p] = "idle"]
       /\ session' = [session EXCEPT ![p] = EmptySession]
       /\ IF done.ok
          THEN /\ Store(done.db)
               /\ response' = Response(201, to_dict(done.db, "RestaurantPizza", done.row))
          ELSE /\ response' = validation_errors
               /\ UNCHANGED tables
       /\ UNCHANGED <<foreign_keys, request, deleted>>

ConcNext ==
    \/ \E p \in Procs, id \in RestaurantIds : delete_get(p, id)
    \/ \E p \in Procs : delete_mark(p)
    \/ \E p \in Procs : delete_commit(p)
    \/ \E p \in Procs, data \in ConcBodies : post_construct(p, data)
    \/ \E p \in Procs : post_commit(p)

ConcSpec == Init /\ [][ConcNext]_vars

-----------------------------------------------------------------------------
(* Properties *)

\* the JSON integers of [MIN_PRICE, MAX_PRICE]
PriceIntegers == {Integer(n) : n \in MIN_PRICE..MAX_PRICE}

\* the value is the id of a row of the table (not null, not an unknown id)
Existing(value, table) == \E row \in table : value = Integer(row.id)

IsPost(req) == req.endpoint = "create_restaurant_pizza"

\* C1: every persisted RestaurantPizza row has an integer price with
\* 1 <= price <= 30, whatever bodies were posted and whatever was deleted.
C1_PriceInRange ==
    \A rp \in restaurant_pizzas :
        /\ rp.price.t = "int"
        /\ MIN_PRICE <= rp.price.v
        /\ rp.price.v <= MAX_PRICE

\* C1 witness: rows are stored and a price above the range has just been refused
C1_Witness ==
    /\ IsPost(request)
    /\ request.data.price = Integer(MAX_PRICE + 1)
    /\ response.status = 400
    /\ restaurant_pizzas # {}

\* C2 (as claimed): a POST whose price is missing, null, not a JSON integer
\* (string, float, boolean) or an integer outside [1, 30] answers 400
\* {"errors": ["validation errors"]} and leaves the three tables as they were.
C2_InvalidPriceRejected ==
    [][(IsPost(request') /\ request'.data.price \notin PriceIntegers)
        => /\ response'.status = 400
           /\ response'.body = [errors |-> <<"validation errors">>]
           /\ tables' = tables]_vars

\* C3: a POST with an integer price of [1, 30] and ids of an existing pizza
\* and restaurant answers 201, adds exactly one row carrying the submitted
\* price and ids under an id no stored row has, and changes nothing else.
C3_ValidCreate ==
    [][(/\ IsPost(request')
        /\ request'.data.price \in PriceIntegers
        /\ Existing(request'.data.pizza_id, pizzas)
        /\ Existing(request'.data.restaurant_id, restaurants))
        => /\ response'.status = 201
           /\ restaurants' = restaurants
           /\ pizzas' = pizzas
           /\ \E row \in restaurant_pizzas' :
                 /\ row \notin restaurant_pizzas
                 /\ restaurant_pizzas' = restaurant_pizzas \cup {row}
                 /\ row.id \notin ids(restaurant_pizzas)
                 /\ row.price = request'.data.price
                 /\ row.pizza_id = request'.data.pizza_id
                 /\ row.restaurant_id = request'.data.restaurant_id]_vars

\* C3 witness: a second row has just been created for pizza 2 at restaurant 1
C3_Witness ==
    /\ IsPost(request)
    /\ request.data = Body(Integer(MAX_PRICE), Integer(2), Integer(1))
    /\ response.status = 201
    /\ Cardinality(restaurant_pizzas) = 2

\* C4: DELETE of an existing restaurant R answers 204 with an empty body;
\* afterwards R and every row with restaurant_id = R are gone, and the pizzas,
\* the other restaurants and the rows of other restaurants are unchanged.
C4_DeleteCascades ==
    [][(request'.endpoint = "delete_restaurant" /\ request'.id \in ids(restaurants))
        => /\ response' = Response(204, "")
           /\ restaurants' = {r \in restaurants : r.id # request'.id}
           /\ restaurant_pizzas' =
                 {rp \in restaurant_pizzas : rp.restaurant_id # Integer(request'.id)}
           /\ pizzas' = pizzas]_vars

\* C4 witness: a delete answered 204, row 1 went with the restaurant and row 2
\* (of another restaurant) stayed
C4_Witness ==
    /\ request.endpoint = "delete_restaurant"
    /\ response.status = 204
    /\ ids(restaurant_pizzas) = {2}

\* C5 (as claimed): a POST with a valid price and a pizza_id or restaurant_id
\* that is null or the id of no stored row answers 400
\* {"errors": ["validation errors"]} and persists no row.
C5_BadForeignKeyRejected ==
    [][(/\ IsPost(request')
        /\ request'.data.price \in PriceIntegers
        /\ request'.data.pizza_id.t \in {"int", "null"}
        /\ request'.data.restaurant_id.t \in {"int", "null"}
        /\ \/ ~Existing(request'.data.pizza_id, pizzas)
           \/ ~Existing(request'.data.restaurant_id, restaurants))
        => /\ response'.status = 400
           /\ response'.body = [errors |-> <<"validation errors">>]
           /\ restaurant_pizzas' = restaurant_pizzas]_vars

\* C6 (as claimed): in every committed state every RestaurantPizza row refers
\* to a stored restaurant and a stored pizza, however the statements of
\* concurrent POST and DELETE requests interleave.
C6_NoOrphanedRows ==
    \A rp \in restaurant_pizzas :
        /\ Existing(rp.restaurant_id, restaurants)
        /\ Existing(rp.pizza_id, pizzas)

\* C7: GET and DELETE of an id that is no stored restaurant's answer 404 with
\* exactly {"error": "Restaurant not found"} and change no table.
C7_NotFound ==
    [][(/\ request'.endpoint \in {"get_restaurant", "delete_restaurant"}
        /\ request'.id \notin ids(restaurants))
        => /\ response'.status = 404
           /\ response'.body = [error |-> "Restaurant not found"]
           /\ tables' = tables]_vars

\* C7 witness: a DELETE of an unknown id answered 404 while rows are stored
C7_Witness ==
    /\ request.endpoint = "delete_restaurant"
    /\ request.id \notin ids(restaurants)
    /\ response.status = 404
    /\ restaurant_pizzas # {}

\* the serialization holds no place where the recursion limit was hit
RECURSIVE finite(_, _)
finite(model, d) ==
    /\ "RecursionError" \notin DOMAIN d
    /\ \A k \in DOMAIN d \cap relationships(model) :
          IF uselist(model, k)
          THEN \A i \in DOMAIN d[k] : finite(target(model, k), d[k][i])
          ELSE d[k] = Null \/ finite(target(model, k), d[k])

\* the shape of a serialized Restaurant: its rows, each with a pizza that
\* lists no rows, none with a restaurant field
RestaurantShape(d, rows) ==
    /\ finite("Restaurant", d)
    /\ DOMAIN d = {"id", "name", "address", "restaurant_pizzas"}
    /\ Len(d.restaurant_pizzas) = Cardinality(rows)
    /\ {d.restaurant_pizzas[i].id : i \in DOMAIN d.restaurant_pizzas} = ids(rows)
    /\ \A i \in DOMAIN d.restaurant_pizzas :
          /\ "pizza" \in DOMAIN d.restaurant_pizzas[i]
          /\ "restaurant" \notin DOMAIN d.restaurant_pizzas[i]
          /\ "restaurant_pizzas" \notin DOMAIN d.restaurant_pizzas[i].pizza

\* the shape of a serialized Pizza: its rows, none with a pizza field
PizzaShape(d, rows) ==
    /\ finite("Pizza", d)
    /\ DOMAIN d = {"id", "name", "ingredients", "restaurant_pizzas"}
    /\ {d.restaurant_pizzas[i].id : i \in DOMAIN d.restaurant_pizzas} = ids(rows)
    /\ \A i \in DOMAIN d.restaurant_pizzas :
          "pizza" \notin DOMAIN d.restaurant_pizzas[i]

\* the shape of a serialized RestaurantPizza: its pizza and its restaurant,
\* neither listing rows
RestaurantPizzaShape(d) ==
    /\ finite("RestaurantPizza", d)
    /\ {"pizza", "restaurant"} \subseteq DOMAIN d
    /\ "restaurant_pizzas" \notin DOMAIN d.pizza
    /\ "restaurant_pizzas" \notin DOMAIN d.restaurant

\* C8: serialization is finite and non-circular for every stored object graph:
\* a Restaurant lists its rows with a nested pizza and without a restaurant
\* field, a Pizza lists its rows without a pizza field, a RestaurantPizza (and
\* so the body of a 201) nests a pizza and a restaurant that list no rows.
C8_SerializationShape ==
    /\ \A r \in restaurants :
          RestaurantShape(to_dict(db_now, "Restaurant", r),
                          related(db_now, "Restaurant", r, "restaurant_pizzas"))
    /\ \A pz \in pizzas :
          PizzaShape(to_dict(db_now, "Pizza", pz),
                     related(db_now, "Pizza", pz, "restaurant_pizzas"))
    /\ \A rp \in restaurant_pizzas :
          RestaurantPizzaShape(to_dict(db_now, "RestaurantPizza", rp))
    /\ (IsPost(request) /\ response.status = 201)
          => RestaurantPizzaShape(response.body)
    /\ (request.endpoint = "get_restaurant" /\ response.status = 200)
          => RestaurantShape(response.body,
                 {rp \in restaurant_pizzas : rp.restaurant_id = Integer(request.id)})

\* C8 witness: a restaurant with two rows, each of a stored pizza, has just
\* been served in full
C8_Witness ==
    /\ request.endpoint = "get_restaurant"
    /\ response.status = 200
    /\ Len(response.body.restaurant_pizzas) = 2
    /\ \A i \in 1..2 : response.body.restaurant_pizzas[i].pizza # Null

GetEndpoints == {"index", "get_restaurants", "get_restaurant", "get_pizzas"}

\* C9: no request creates or modifies a Restaurant or Pizza row: the pizzas
\* never change, the restaurants only shrink and only by DELETE, a stored
\* RestaurantPizza row keeps its price and ids while it exists, and the GET
\* endpoints change no table.
C9_Frame ==
    [][/\ pizzas' = pizzas
       /\ restaurants' \subseteq restaurants
       /\ restaurants' # restaurants => request'.endpoint = "delete_restaurant"
       /\ \A old \in restaurant_pizzas : \A new \in restaurant_pizzas' :
             new.id = old.id => new = old
       /\ request'.endpoint \in GetEndpoints => tables' = tables]_vars

\* C9 witness: after a restaurant with rows was deleted and a row was created
\* for the other one, a GET is served
C9_Witness ==
    /\ deleted # {}
    /\ restaurant_pizzas # {}
    /\ request.endpoint \in GetEndpoints
    /\ pizzas = SeedPizzas

\* C10: once DELETE /restaurants/R has answered 204, every later GET and
\* DELETE of R answers 404 and GET /restaurants lists no entry with id R.
C10_DeletedStaysDeleted ==
    [][/\ (request'.endpoint \in {"get_restaurant", "delete_restaurant"}
             /\ request'.id \in deleted)
          => response'.status = 404
       /\ request'.endpoint = "get_restaurants"
          => \A i \in DOMAIN response'.body : response'.body[i].id \notin deleted]_vars

\* C10 witness: a DELETE of a restaurant deleted earlier has answered 404
C10_Witness ==
    /\ request.endpoint = "delete_restaurant"
    /\ request.id \in deleted
    /\ response.status = 404

====
